---- MODULE Spec2Model ----
(***************************************************************************)
(* Model of the glacier news / blog backend.                               *)
(*                                                                         *)
(* The repository holds two servers: src/unnamed/part_000 ("server.js":    *)
(* news only, with a relevance filter and the /fetch-news route) and       *)
(* src/index.js (news without a filter, plus the blog routes backed by     *)
(* Cloudinary).  The variable `variant` says which of the two is running.  *)
(*                                                                         *)
(* Every `await` of the code is a point where other handlers may run, so   *)
(* each handler is cut into one action per await: the action that resumes  *)
(* after an awaited call applies the call's effect and runs the code up to *)
(* the next await.  Each awaited external call (GNews, MongoDB,            *)
(* Cloudinary) may resolve or reject.                                      *)
(***************************************************************************)
EXTENDS Integers, Sequences, FiniteSets

VARIABLES
    variant,    \* "server" (src/unnamed/part_000) or "index" (src/index.js)
    news,       \* the `news` collection: a set of stored documents
    runs,       \* the fetchNews executions, by start order
    started,    \* how many fetchNews executions were started
    blogs,      \* the `blogs` collection
    store,      \* the live objects of the Cloudinary account
    uploads,    \* the POST /storeBlog requests, by arrival order
    deletes,    \* the DELETE /deleteBlog/:id requests, by arrival order
    nUploads,   \* how many /storeBlog requests arrived
    nDeletes    \* how many /deleteBlog requests arrived

newsVars == <<variant, news, runs, started>>
blogVars == <<blogs, store, uploads, deletes, nUploads, nDeletes>>
vars == <<variant, news, runs, started, blogs, store, uploads, deletes, nUploads, nDeletes>>

(***************************************************************************)
(* Bounds                                                                  *)
(***************************************************************************)
MaxRuns == 2        \* fetchNews executions in one behaviour
MaxArticles == 2    \* articles in one upstream response
MaxUploads == 1     \* /storeBlog requests in one behaviour
MaxDeletes == 2     \* /deleteBlog requests in one behaviour

(***************************************************************************)
(* Strings are sequences of one-character strings; an optional value is    *)
(* the empty sequence (undefined) or a one-element sequence holding it.    *)
(***************************************************************************)
Undefined == <<>>
Some(s) == <<s>>

Lower(c) ==
    CASE c = "A" -> "a" [] c = "C" -> "c" [] c = "E" -> "e" [] c = "G" -> "g"
      [] c = "I" -> "i" [] c = "L" -> "l" [] c = "R" -> "r" [] c = "S" -> "s"
      [] c = "V" -> "v" [] OTHER -> c

\* String.prototype.toLowerCase
toLowerCase(s) == [i \in 1..Len(s) |-> Lower(s[i])]

\* String.prototype.includes
includes(s, sub) ==
    \E i \in 0..(Len(s) - Len(sub)) : SubSeq(s, i + 1, i + Len(sub)) = sub

\* String(v) as `+` applies it to an operand: undefined becomes "undefined"
StringOf(v) ==
    IF v = Undefined THEN <<"u", "n", "d", "e", "f", "i", "n", "e", "d">> ELSE v[1]

\* JavaScript truthiness of an optional string: undefined and "" are falsy
Truthy(v) == v # Undefined /\ v[1] # <<>>

kwGlacier == <<"g", "l", "a", "c", "i", "e", "r">>
kwIce == <<"i", "c", "e">>
kwIceSheet == <<"i", "c", "e", " ", "s", "h", "e", "e", "t">>

(***************************************************************************)
(* Upstream (GNews) articles and responses                                 *)
(***************************************************************************)
sGlacier == <<"G", "l", "a", "c", "i", "e", "r">>
sVote == <<"V", "o", "t", "e">>
sICE == <<"I", "C", "E">>
sRain == <<"r", "a", "i", "n">>

\* The raw articles an upstream response is built from, in a fixed order.
RawArticles ==
    << [title |-> Some(sGlacier), description |-> Undefined,   image |-> "img1"],
       [title |-> Some(sVote),    description |-> Some(sICE),  image |-> "img2"],
       [title |-> Undefined,      description |-> Some(sRain), image |-> "img3"] >>

RECURSIVE Ascending(_)
Ascending(q) == Len(q) < 2 \/ (q[1] < q[2] /\ Ascending(Tail(q)))

\* The article lists of a response: at most MaxArticles distinct raw articles.
ArticleLists ==
    { [i \in 1..Len(q) |-> RawArticles[q[i]]] :
        q \in { p \in UNION { [1..k -> 1..Len(RawArticles)] : k \in 0..MaxArticles } :
                  Ascending(p) } }

NoData == [errors |-> FALSE, hasArticles |-> FALSE, articles |-> <<>>]

\* What `fetch(url)` then `response.json()` can produce.  A rejected fetch is
\* "transportError", a body that is not JSON is "unparsable".  GNews answers a
\* non-2xx request with a JSON error descriptor ({errors: [...]}) that has no
\* `articles`; a 2xx body has `articles` (possibly empty) or lacks the field.
Upstream ==
    { [kind |-> k, data |-> NoData] : k \in {"transportError", "unparsable"} }
    \cup { [kind |-> "non2xx",
            data |-> [errors |-> TRUE, hasArticles |-> FALSE, articles |-> <<>>]] }
    \cup { [kind |-> "ok", data |-> NoData] }
    \cup { [kind |-> "ok",
            data |-> [errors |-> FALSE, hasArticles |-> TRUE, articles |-> l]] :
           l \in ArticleLists }

(***************************************************************************)
(* fetchNews                                                               *)
(***************************************************************************)
\* `(article.title || "" + " " + article.description || "").toLowerCase()`:
\* `+` binds tighter than `||`, so the text is the title when the title is
\* truthy and " " + String(description) otherwise (never empty, so the last
\* `|| ""` is never taken).
filterText(article) ==
    toLowerCase(IF Truthy(article.title)
                THEN article.title[1]
                ELSE <<" ">> \o StringOf(article.description))

\* The callback of data.articles.filter in server.js
filterKeeps(article) ==
    \/ includes(filterText(article), kwGlacier)
    \/ includes(filterText(article), kwIce)
    \/ includes(filterText(article), kwIceSheet)

\* The documents handed to News.insertMany by run n.
\* server.js inserts the filtered raw articles (the schema keeps `image`);
\* index.js inserts every article, mapped (`urlToImage: a.image`).
Doc(n, i, a, key) ==
    [ins |-> <<n, i>>, title |-> a.title, description |-> a.description,
     imgKey |-> key, img |-> a.image]

filtered(articles) == SelectSeq(articles, filterKeeps)

formattedArticles(n, articles) ==
    [i \in 1..Len(articles) |-> Doc(n, i, articles[i], "urlToImage")]

serverDocs(n, articles) ==
    [i \in 1..Len(filtered(articles)) |-> Doc(n, i, filtered(articles)[i], "image")]

\* A catch block that lets the exception escape to the caller.
catchResultRethrows == "exception"

\* `return { error: "Failed to fetch glacier news" }` in server.js; the catch
\* block of index.js returns nothing.
catchResult == IF variant = "server" THEN "error" ELSE "undefined"

\* `return data` in server.js; index.js returns nothing.
normalResult == IF variant = "server" THEN "data" ELSE "undefined"

IdleRun ==
    [pc |-> "idle", trigger |-> "none", upstream |-> "none", data |-> NoData,
     toInsert |-> <<>>, result |-> "none"]

Range(q) == { q[i] : i \in 1..Len(q) }

\* A fetchNews call begins: by the timer / the initial call (both servers) or
\* by GET /fetch-news (server.js only).  It runs to `await fetch(url)`.
StartRun(trigger) ==
    /\ started < MaxRuns
    /\ trigger = "http" => variant = "server"
    /\ started' = started + 1
    /\ runs' = [runs EXCEPT ![started + 1] =
                   [IdleRun EXCEPT !.pc = "fetch", !.trigger = trigger]]
    /\ UNCHANGED <<variant, news>>
    /\ UNCHANGED blogVars

\* fetch and response.json() settle; the code runs to the next await or to
\* its return.
FetchDone(n, resp) ==
    /\ runs[n].pc = "fetch"
    /\ LET r == [runs[n] EXCEPT !.upstream = resp.kind, !.data = resp.data]
           d == resp.data
       IN  runs' = [runs EXCEPT ![n] =
             IF resp.kind \in {"transportError", "unparsable"}
             THEN [r EXCEPT !.pc = "done", !.result = catchResult]
             ELSE IF d.hasArticles /\ Len(d.articles) > 0
             THEN IF variant = "server"
                  THEN IF Len(filtered(d.articles)) > 0
                       THEN [r EXCEPT !.pc = "deleteMany",
                                      !.toInsert = serverDocs(n, d.articles)]
                       ELSE [r EXCEPT !.pc = "done", !.result = normalResult]
                  ELSE [r EXCEPT !.pc = "deleteMany"]
             ELSE [r EXCEPT !.pc = "done", !.result = normalResult]]
    /\ UNCHANGED <<variant, news, started>>
    /\ UNCHANGED blogVars

\* News.deleteMany({}) settles.  Resolved: the collection is empty and the
\* code goes on to News.insertMany; rejected: the catch block.
DeleteManyDone(n, resolved) ==
    /\ runs[n].pc = "deleteMany"
    /\ IF resolved
       THEN /\ news' = {}
            /\ runs' = [runs EXCEPT ![n] =
                 [@ EXCEPT !.pc = "insertMany",
                           !.toInsert = IF variant = "server" THEN @
                                        ELSE formattedArticles(n, runs[n].data.articles)]]
       ELSE /\ news' = news
            /\ runs' = [runs EXCEPT ![n] = [@ EXCEPT !.pc = "done", !.result = catchResult]]
    /\ UNCHANGED <<variant, started>>
    /\ UNCHANGED blogVars

\* News.insertMany(docs) settles.  Resolved: every document is stored;
\* rejected (an ordered bulk insert): the first k < Len(docs) are stored.
InsertManyDone(n, k) ==
    /\ runs[n].pc = "insertMany"
    /\ k \in 0..Len(runs[n].toInsert)
    /\ news' = news \cup { runs[n].toInsert[i] : i \in 1..k }
    /\ runs' = [runs EXCEPT ![n] =
         [@ EXCEPT !.pc = "done",
                   !.result = IF k = Len(runs[n].toInsert) THEN normalResult
                              ELSE catchResult]]
    /\ UNCHANGED <<variant, started>>
    /\ UNCHANGED blogVars

(***************************************************************************)
(* Blog media: URLs and identifiers are sequences of tokens, the           *)
(* separators "/" and "." being tokens of their own.                       *)
(***************************************************************************)
RECURSIVE IndexOf(_, _, _)
IndexOf(s, sep, i) ==
    IF i > Len(s) THEN 0 ELSE IF s[i] = sep THEN i ELSE IndexOf(s, sep, i + 1)

\* String.prototype.split(sep)
RECURSIVE split(_, _)
split(s, sep) ==
    LET i == IndexOf(s, sep, 1)
    IN  IF i = 0 THEN <<s>>
        ELSE <<SubSeq(s, 1, i - 1)>> \o split(SubSeq(s, i + 1, Len(s)), sep)

\* String.prototype.startsWith(prefix), prefix being one token
startsWith(s, prefix) == Len(s) > 0 /\ s[1] = prefix

mimePng == <<"image", "/", "png">>
mimeMp4 == <<"video", "/", "mp4">>

\* The names the object store gives an uploaded file (its public id without
\* the folder): generated names, and names kept from the uploaded file.
StoredNames == { <<"abc123">>, <<"my", ".", "photo">> }

\* `folder: "blogs"` of the CloudinaryStorage params
folder == <<"blogs">>

\* The object the store creates for an upload: its public id is the folder
\* and the name, its delivery URL ends with the public id and the format.
StoredObject(name, mimetype) ==
    LET rtype == mimetype[1]
    IN  [public_id |-> folder \o <<"/">> \o name,
         resource_type |-> rtype,
         url |-> <<"https:", "/", "/", "res", ".", "cloudinary", ".", "com", "/",
                   "demo", "/", rtype, "/", "upload", "/", "v1", "/">>
                 \o folder \o <<"/">> \o name \o <<".", mimetype[3]>>]

\* `req.file.mimetype.startsWith("video") ? "video" : "image"`
mediaTypeOf(mimetype) == IF startsWith(mimetype, "video") THEN "video" ELSE "image"

\* The identifier DELETE /deleteBlog/:id derives from blog.mediaUrl:
\*   urlParts = mediaUrl.split("/"); last = urlParts.slice(-1)[0];
\*   publicId = `blogs/${last.split(".")[0]}`
publicIdOf(mediaUrl) ==
    LET urlParts == split(mediaUrl, "/")
        publicIdWithExtension == urlParts[Len(urlParts)]
    IN  <<"blogs", "/">> \o split(publicIdWithExtension, ".")[1]

\* The `required: true` validators of blogSchema on title and description:
\* a missing or empty string fails.
schemaValid(title, description) == Truthy(title) /\ Truthy(description)

\* A handler that does not check req.file.
rejectsMissingFileNever(file) == FALSE

\* `if (!req.file)` of the /storeBlog handler
rejectsMissingFile(file) == file = Undefined

IdleUpload ==
    [pc |-> "idle", file |-> Undefined, title |-> Undefined, description |-> Undefined,
     path |-> <<>>, uploadIssued |-> FALSE, status |-> 0]

IdleDelete ==
    [pc |-> "idle", id |-> 0, found |-> FALSE, mediaUrl |-> <<>>, mediaType |-> "none",
     publicId |-> <<>>, destroyIssued |-> FALSE, dbDeleteIssued |-> FALSE, status |-> 0]

\* An answered request: the request object is gone; what stays observable is
\* the status sent and which outbound calls the request made.
AnsweredUpload(r, status) ==
    [IdleUpload EXCEPT !.pc = "done", !.status = status, !.uploadIssued = r.uploadIssued]

AnsweredDelete(r, status) ==
    [IdleDelete EXCEPT !.pc = "done", !.status = status, !.found = r.found,
                       !.destroyIssued = r.destroyIssued,
                       !.dbDeleteIssued = r.dbDeleteIssued]

Titles == { Undefined, Some(<<>>), Some(<<"t">>) }
Descriptions == { Undefined, Some(<<"d">>) }
Files == { Undefined, Some(mimePng), Some(mimeMp4) }

\* POST /storeBlog arrives; parser.single("media") starts reading the body.
StoreBlogRequest(file, title, description) ==
    /\ variant = "index"
    /\ nUploads < MaxUploads
    /\ nUploads' = nUploads + 1
    /\ uploads' = [uploads EXCEPT ![nUploads + 1] =
         [IdleUpload EXCEPT !.pc = "multer", !.file = file, !.title = title,
                            !.description = description]]
    /\ UNCHANGED <<blogs, store, deletes, nDeletes>>
    /\ UNCHANGED newsVars

\* Is this name free in the store?
FreshName(name) == \A o \in store : o.public_id # folder \o <<"/">> \o name

\* The handler of /storeBlog up to `await blog.save()`, req.file being set
\* (path: the uploaded object's URL) or undefined.  Without the check of
\* req.file, `req.file.path` would throw and the catch block answer 500.
StoreBlogHandler(r, path) ==
    IF rejectsMissingFile(r.file)
    THEN AnsweredUpload(r, 400)
    ELSE IF r.file = Undefined
         THEN AnsweredUpload(r, 500)
         ELSE [r EXCEPT !.pc = "save", !.path = path]

\* parser.single("media") finishes.  With no file part it calls nothing and
\* hands over to the handler.  With a file it has uploaded it to Cloudinary:
\* rejected, multer passes the error on and the handler never runs (500);
\* resolved, the object is live and the handler runs.
MulterDone(u, resolved, name) ==
    /\ uploads[u].pc = "multer"
    /\ IF uploads[u].file = Undefined
       THEN /\ store' = store
            /\ uploads' = [uploads EXCEPT ![u] = StoreBlogHandler(@, <<>>)]
       ELSE LET r == [uploads[u] EXCEPT !.uploadIssued = TRUE]
                o == StoredObject(name, r.file[1])
            IN  IF resolved
                THEN /\ FreshName(name)
                     /\ store' = store \cup {o}
                     /\ uploads' = [uploads EXCEPT ![u] = StoreBlogHandler(r, o.url)]
                ELSE /\ store' = store
                     /\ uploads' = [uploads EXCEPT ![u] = AnsweredUpload(r, 500)]
    /\ UNCHANGED <<blogs, deletes, nUploads, nDeletes>>
    /\ UNCHANGED newsVars

\* blog.save() settles: it rejects when validation fails or the insert does,
\* and the catch block answers 500; otherwise the record is stored (201).
SaveDone(u, dbOk) ==
    /\ uploads[u].pc = "save"
    /\ LET r == uploads[u]
       IN  IF schemaValid(r.title, r.description) /\ dbOk
           THEN /\ blogs' = blogs \cup
                      {[id |-> u, title |-> r.title[1], description |-> r.description[1],
                        mediaUrl |-> r.path, mediaType |-> mediaTypeOf(r.file[1])]}
                /\ uploads' = [uploads EXCEPT ![u] = AnsweredUpload(r, 201)]
           ELSE /\ blogs' = blogs
                /\ uploads' = [uploads EXCEPT ![u] = AnsweredUpload(r, 500)]
    /\ UNCHANGED <<store, deletes, nUploads, nDeletes>>
    /\ UNCHANGED newsVars

\* DELETE /deleteBlog/:id arrives and runs to `await Blog.findById(blogId)`.
DeleteBlogRequest(id) ==
    /\ variant = "index"
    /\ nDeletes < MaxDeletes
    /\ nDeletes' = nDeletes + 1
    /\ deletes' = [deletes EXCEPT ![nDeletes + 1] =
                      [IdleDelete EXCEPT !.pc = "findById", !.id = id]]
    /\ UNCHANGED <<blogs, store, uploads, nUploads>>
    /\ UNCHANGED newsVars

\* Blog.findById settles.  Rejected: 500.  No record: 404.  Otherwise the
\* identifier is derived and cloudinary.uploader.destroy is called.
FindByIdDone(d, resolved) ==
    /\ deletes[d].pc = "findById"
    /\ LET hits == { b \in blogs : b.id = deletes[d].id }
       IN  deletes' = [deletes EXCEPT ![d] =
             IF ~resolved THEN AnsweredDelete(@, 500)
             ELSE IF hits = {} THEN AnsweredDelete(@, 404)
             ELSE LET blog == CHOOSE b \in hits : TRUE
                  IN  [@ EXCEPT !.pc = "destroy", !.found = TRUE,
                                !.mediaUrl = blog.mediaUrl, !.mediaType = blog.mediaType,
                                !.publicId = publicIdOf(blog.mediaUrl),
                                !.destroyIssued = TRUE]]
    /\ UNCHANGED <<blogs, store, uploads, nUploads, nDeletes>>
    /\ UNCHANGED newsVars

\* cloudinary.uploader.destroy(publicId, {resource_type}) settles.  Rejected:
\* 500, the record stays.  Resolved (also when no such object exists): the
\* object of that identifier and kind is gone, Blog.findByIdAndDelete is called.
DestroyDone(d, resolved) ==
    /\ deletes[d].pc = "destroy"
    /\ IF resolved
       THEN /\ store' = { o \in store : ~(o.public_id = deletes[d].publicId
                                          /\ o.resource_type = deletes[d].mediaType) }
            /\ deletes' = [deletes EXCEPT ![d] =
                 [@ EXCEPT !.pc = "findByIdAndDelete", !.dbDeleteIssued = TRUE]]
       ELSE /\ store' = store
            /\ deletes' = [deletes EXCEPT ![d] = AnsweredDelete(@, 500)]
    /\ UNCHANGED <<blogs, uploads, nUploads, nDeletes>>
    /\ UNCHANGED newsVars

\* Blog.findByIdAndDelete settles.  Rejected: 500.  Resolved: the record is
\* gone (200).
FindByIdAndDeleteDone(d, resolved) ==
    /\ deletes[d].pc = "findByIdAndDelete"
    /\ IF resolved
       THEN /\ blogs' = { b \in blogs : b.id # deletes[d].id }
            /\ deletes' = [deletes EXCEPT ![d] = AnsweredDelete(@, 200)]
       ELSE /\ blogs' = blogs
            /\ deletes' = [deletes EXCEPT ![d] = AnsweredDelete(@, 500)]
    /\ UNCHANGED <<store, uploads, nUploads, nDeletes>>
    /\ UNCHANGED newsVars

NextBlog ==
    \/ \E f \in Files : \E t \in Titles : \E ds \in Descriptions : StoreBlogRequest(f, t, ds)
    \/ \E u \in 1..MaxUploads : \E ok \in BOOLEAN : \E name \in StoredNames :
          MulterDone(u, ok, name)
    \/ \E u \in 1..MaxUploads : \E ok \in BOOLEAN : SaveDone(u, ok)
    \/ \E id \in 1..MaxUploads : DeleteBlogRequest(id)
    \/ \E d \in 1..MaxDeletes : \E ok \in BOOLEAN : FindByIdDone(d, ok)
    \/ \E d \in 1..MaxDeletes : \E ok \in BOOLEAN : DestroyDone(d, ok)
    \/ \E d \in 1..MaxDeletes : \E ok \in BOOLEAN : FindByIdAndDeleteDone(d, ok)

NextNews ==
    \/ \E t \in {"timer", "http"} : StartRun(t)
    \/ \E n \in 1..MaxRuns : \E resp \in Upstream : FetchDone(n, resp)
    \/ \E n \in 1..MaxRuns : \E ok \in BOOLEAN : DeleteManyDone(n, ok)
    \/ \E n \in 1..MaxRuns : \E k \in 0..MaxArticles : InsertManyDone(n, k)

\* A document left in the collection by an earlier process.
OldDoc ==
    [ins |-> <<0, 1>>, title |-> Some(sGlacier), description |-> Undefined,
     imgKey |-> "image", img |-> "img0"]

Init ==
    /\ variant \in {"server", "index"}
    /\ news \in {{}, {OldDoc}}
    /\ runs = [n \in 1..MaxRuns |-> IdleRun]
    /\ started = 0
    /\ blogs = {}
    /\ store = {}
    /\ uploads = [u \in 1..MaxUploads |-> IdleUpload]
    /\ deletes = [d \in 1..MaxDeletes |-> IdleDelete]
    /\ nUploads = 0
    /\ nDeletes = 0

Next == NextNews \/ NextBlog

Spec == Init /\ [][Next]_vars
SpecNews == Init /\ [][NextNews]_vars
\* The blog routes exist in index.js only.
InitBlog == Init /\ variant = "index" /\ news = {}

SpecBlog == InitBlog /\ [][NextBlog]_vars

(***************************************************************************)
(* Properties                                                              *)
(***************************************************************************)
Keywords == {kwGlacier, kwIce, kwIceSheet}

OrEmpty(v) == IF v = Undefined THEN <<>> ELSE v[1]

\* The relevance filter as specified: the title or the description,
\* case-insensitively, contains an allow-listed substring.
Relevant(a) ==
    \E kw \in Keywords :
        \/ includes(toLowerCase(OrEmpty(a.title)), kw)
        \/ includes(toLowerCase(OrEmpty(a.description)), kw)

Survivors(articles) == SelectSeq(articles, Relevant)

\* What a collection holds, field naming and insertion order aside.
Content(coll) ==
    { [run |-> d.ins[1], title |-> d.title, description |-> d.description, img |-> d.img] :
        d \in coll }

ExpectedContent(n, articles) ==
    { [run |-> n, title |-> a.title, description |-> a.description, img |-> a.image] :
        a \in Range(Survivors(articles)) }

Finishes(n) == runs[n].pc # "done" /\ runs'[n].pc = "done"

FailureKinds == {"transportError", "unparsable", "non2xx"}

\* The filter of the code and the specified one agree on these articles.
FilterAgrees(articles) ==
    \A i \in 1..Len(articles) : filterKeeps(articles[i]) <=> Relevant(articles[i])

\* C1: when a fetchNews run with at least one relevant upstream article
\* finishes, the news collection holds exactly that run's relevant articles
\* and nothing stored earlier.  (Stated for the runs whose deleteMany and
\* insertMany both resolved, and for the responses on which the filter of
\* server.js keeps what is relevant, so that a violation rests neither on a
\* storage failure nor on C4.)
C1_RefreshReplacesCollection ==
    [][\A n \in 1..MaxRuns :
          (Finishes(n) /\ runs'[n].upstream = "ok"
             /\ runs[n].pc = "insertMany" /\ Range(runs[n].toInsert) \subseteq news'
             /\ FilterAgrees(runs'[n].data.articles)
             /\ Survivors(runs'[n].data.articles) # <<>>)
          => Content(news') = ExpectedContent(n, runs'[n].data.articles)]_vars

\* C2: no step of a fetchNews run whose upstream response holds no relevant
\* article (an empty or missing list included) changes the news collection,
\* and such a run ends without calling deleteMany or insertMany.
C2_NoMatchLeavesCollection ==
    [][\A n \in 1..MaxRuns :
          (runs'[n] # runs[n] /\ runs'[n].upstream = "ok"
             /\ Survivors(runs'[n].data.articles) = <<>>)
          => (news' = news /\ runs'[n].pc = "done")]_vars

\* The payload /fetch-news sends tells of an error: the server's own error
\* descriptor, or the upstream's error body passed through.
IsErrorPayload(r) == r.result = "error" \/ (r.result = "data" /\ r.data.errors)

C4_FilterKeepsIffRelevant ==
    \A n \in 1..MaxRuns :
        (variant = "server" /\ runs[n].upstream = "ok")
        => \A i \in 1..Len(runs[n].data.articles) :
               filterKeeps(runs[n].data.articles[i]) <=> Relevant(runs[n].data.articles[i])

\* C5: once two or more fetchNews runs, each of which stored its result set
\* without a storage error, have all finished, the news collection is the
\* result set of exactly one of them.
C5_LastWriterWins ==
    (/\ started >= 2
     /\ \A n \in 1..started :
           /\ runs[n].pc = "done"
           /\ runs[n].result = normalResult
           /\ runs[n].toInsert # <<>>)
    => \E n \in 1..started : news = Range(runs[n].toInsert)

DeleteInFlight(id) ==
    \E d \in 1..MaxDeletes :
        deletes[d].pc \in {"destroy", "findByIdAndDelete"} /\ deletes[d].id = id

\* C6: every stored BlogPost that no /deleteBlog request is working on has a
\* mediaUrl that is the URL of exactly one live object of the store.
C6_BlogHasOneLiveObject ==
    \A b \in blogs :
        ~DeleteInFlight(b.id) => Cardinality({ o \in store : o.url = b.mediaUrl }) = 1

MissingField(r) == r.file = Undefined \/ r.title = Undefined \/ r.description = Undefined

\* C7: a /storeBlog request that lacks the file, the title or the description
\* (and whose upload, if any, went through) is answered with a 4xx status,
\* and leaves neither a BlogPost record nor an object in the store.
C7_MissingFieldNoPartialState ==
    [][\A u \in 1..MaxUploads :
          (/\ MissingField(uploads[u])
           /\ uploads[u].pc \in {"multer", "save"} /\ uploads'[u].pc = "done"
           /\ uploads[u].file # Undefined => uploads[u].pc = "save")
          => /\ uploads'[u].status \in 400..499
             /\ \A b \in blogs' : b.id # u
             /\ \A o \in store' : o.url # uploads[u].path]_vars

\* C8: a /storeBlog request without a file is answered 400 by the step that
\* handles it, which calls no upload and changes neither the blogs
\* collection nor the store.
C8_NoFileIs400 ==
    [][\A u \in 1..MaxUploads :
          (uploads[u].pc = "multer" /\ uploads[u].file = Undefined
             /\ uploads'[u] # uploads[u])
          => /\ uploads'[u].pc = "done"
             /\ uploads'[u].status = 400
             /\ ~uploads'[u].uploadIssued
             /\ blogs' = blogs
             /\ store' = store]_vars

C8_Witness ==
    \E u \in 1..MaxUploads :
        /\ uploads[u].pc = "done" /\ uploads[u].status = 400
        /\ ~uploads[u].uploadIssued
        /\ blogs = {} /\ store = {}

\* C9: for every stored BlogPost, the identifier /deleteBlog derives from its
\* mediaUrl is the identifier the store gave the object at upload.
C9_DerivedIdIsAssignedId ==
    \A b \in blogs :
        \A o \in store : o.url = b.mediaUrl => publicIdOf(b.mediaUrl) = o.public_id

\* C10: an answered /deleteBlog request that found its record has issued the
\* object-store delete and after it the database delete; one that found no
\* record issued neither, and is answered 404 (500 when the lookup failed).
C10_BothDeletesAttempted ==
    \A d \in 1..MaxDeletes :
        /\ deletes[d].dbDeleteIssued => deletes[d].destroyIssued
        /\ deletes[d].pc = "done" =>
             /\ deletes[d].found => (deletes[d].destroyIssued /\ deletes[d].dbDeleteIssued)
             /\ ~deletes[d].found =>
                  /\ ~deletes[d].destroyIssued /\ ~deletes[d].dbDeleteIssued
                  /\ deletes[d].status \in {404, 500}
             /\ deletes[d].status = 404 => ~deletes[d].found

====
